---- MODULE Spec2Model ----
(***************************************************************************)
(* A model of the incremental-build state of rivals-workshop-assistant:    *)
(*   - dotfile_mod.py: the persisted dotfile (processed time, seen files,  *)
(*     injection clients) and its update / query functions;                *)
(*   - aseprite_handling/aseprites.py: decomposition of an aseprite file's *)
(*     tags into anims and windows, reading of aseprite files against the  *)
(*     dotfile, and the concurrent export of a file's anims.               *)
(***************************************************************************)
EXTENDS Integers, Sequences, FiniteSets, TLC

VARIABLES
    dotfile,      \* the dotfile dict of one project (dotfile_mod.py)
    lastDeps,     \* history: the dependencies of each client's latest update
    dropped,      \* history: what that update dropped from the one before it
    ase,          \* the Aseprite whose tags are decomposed
    anims,        \* Aseprite._anims: None until the anims property is read
    disk,         \* the aseprite files of the project: modified time, pixels
    now,          \* the clock
    pc,           \* "idle" between runs, "running" during one
    aseprites,    \* what read_aseprites returned to the run
    cur,          \* the index of the aseprite the run is saving
    saveState,    \* Aseprite.save of that file: none, awaiting, returned, raised
    raised,       \* the exceptions that call of Aseprite.save raised
    tasks,        \* the export task of each (file, anim) of the run
    failedFiles,  \* the files whose save raised in this run
    failedLast,   \* history: the files whose save raised in the run before
    savedLast,    \* history: the files saved without failure in the run before
    exportedFp,   \* history: the fingerprint last exported of each (file, anim)
    edits         \* how many times the user has changed a file

depVars == <<lastDeps, dropped>>
decompVars == <<ase, anims>>
runVars == <<disk, now, pc, aseprites, cur, saveState, raised, tasks,
             failedFiles, failedLast, savedLast, exportedFp, edits>>
vars == <<dotfile, depVars, decompVars, runVars>>

-----------------------------------------------------------------------------
(* Values and helpers *)

\* An optional value (Python's None, a dict field that may be missing, a call
\* that may not have happened): None, or Some(x).
None == <<>>
Some(x) == <<x>>
IsSome(o) == Len(o) = 1
Get(o) == o[1]

\* The longest dependency list one update passes.
MaxDeps == 2

\* The most tags and the most frames an aseprite file holds.
MaxTags == 2
MaxFrames == 3

\* The most runs of the assistant, and the most changes the user makes to
\* the files between them.
MaxRuns == 2
MaxEdits == 2

ToSet(s) == {s[i] : i \in 1..Len(s)}

SeqsUpTo(S, n) == UNION {[1..k -> S] : k \in 0..n}

RECURSIVE SelectIndices(_, _, _)
\* The indices i of s, ascending from index `from`, with keep[i].
SelectIndices(keep, from, n) ==
    IF from > n THEN <<>>
    ELSE IF keep[from] THEN <<from>> \o SelectIndices(keep, from + 1, n)
    ELSE SelectIndices(keep, from + 1, n)

-----------------------------------------------------------------------------
(* pathlib: a string is the sequence of its tokens (a run of ordinary       *)
(* characters, a "/" or a "."), a Path the sequence of its parts, each part *)
(* the tokens of one file or folder name.                                  *)

RECURSIVE as_posix(_)
\* PurePath.as_posix: the parts joined by "/".
as_posix(path) ==
    IF Len(path) = 0 THEN <<>>
    ELSE IF Len(path) = 1 THEN path[1]
    ELSE path[1] \o <<"/">> \o as_posix(Tail(path))

RECURSIVE SplitParts(_, _)
SplitParts(str, part) ==
    IF Len(str) = 0 THEN (IF Len(part) = 0 THEN <<>> ELSE <<part>>)
    ELSE IF Head(str) = "/"
    THEN (IF Len(part) = 0 THEN <<>> ELSE <<part>>) \o SplitParts(Tail(str), <<>>)
    ELSE SplitParts(Tail(str), Append(part, Head(str)))

\* Path(str): the parts between the separators.
Path(str) == SplitParts(str, <<>>)

\* PurePath.stem: the final part without its last suffix; a "." that starts
\* or ends the name is no suffix.
stem(path) ==
    LET name == path[Len(path)]
        dots == {i \in 1..Len(name) : name[i] = "."}
        last == IF dots = {} THEN 0 ELSE CHOOSE i \in dots : \A j \in dots : j <= i
    IN IF 1 < last /\ last < Len(name) THEN SubSeq(name, 1, last - 1) ELSE name

\* The client scripts and the injection scripts of the project.
ClientScripts ==
    { << <<"scripts">>, <<"attack", ".", "gml">> >>,
      << <<"scripts">>, <<"init", ".", "gml">> >>,
      << <<"scripts">>, <<"attacks">>, <<"dair", ".", "gml">> >> }

InjectionScripts ==
    { << <<"inject">>, <<"combo_lib", ".", "gml">> >>,
      << <<"inject">>, <<"util", ".", "gml">> >> }

-----------------------------------------------------------------------------
(* A Python dict keeps insertion order: a sequence of [key, val] entries.  *)

DictHas(d, k) == \E i \in 1..Len(d) : d[i].key = k

DictGet(d, k) == d[CHOOSE i \in 1..Len(d) : d[i].key = k].val

\* d[k] = v: an existing key keeps its place, a new key goes last.
DictSet(d, k, v) ==
    IF DictHas(d, k)
    THEN [i \in 1..Len(d) |-> IF d[i].key = k THEN [key |-> k, val |-> v] ELSE d[i]]
    ELSE Append(d, [key |-> k, val |-> v])

\* d.pop(k)
DictPop(d, k) ==
    LET keep == [i \in 1..Len(d) |-> d[i].key # k]
        idx == SelectIndices(keep, 1, Len(d))
    IN [j \in 1..Len(idx) |-> d[idx[j]]]

-----------------------------------------------------------------------------
(* dotfile_mod.py: injection clients *)

\* dotfile[INJECT_CLIENTS_FIELD], once the field is there.
InjectClients(df) ==
    IF IsSome(df.injection_clients) THEN Get(df.injection_clients) ELSE <<>>

\* A slip: the new dependencies are added to the recorded ones.
update_merging_dependencies(df, clientscript, dependencies) ==
    LET clients == InjectClients(df)
        key == as_posix(clientscript)
        deps == [i \in 1..Len(dependencies) |-> as_posix(dependencies[i])]
        old == IF DictHas(clients, key) THEN DictGet(clients, key) ELSE <<>>
    IN IF Len(dependencies) > 0
       THEN [df EXCEPT !.injection_clients = Some(DictSet(clients, key, old \o deps))]
       ELSE IF DictHas(clients, key)
       THEN [df EXCEPT !.injection_clients = Some(DictPop(clients, key))]
       ELSE [df EXCEPT !.injection_clients = Some(clients)]

\* A slip: the entry is written whatever the length of the list.
update_storing_empty(df, clientscript, dependencies) ==
    LET clients == InjectClients(df)
        key == as_posix(clientscript)
        deps == [i \in 1..Len(dependencies) |-> as_posix(dependencies[i])]
    IN [df EXCEPT !.injection_clients = Some(DictSet(clients, key, deps))]

update_dotfile_injection_clients(df, clientscript, dependencies) ==
    LET clients == InjectClients(df)
        key == as_posix(clientscript)
        deps == [i \in 1..Len(dependencies) |-> as_posix(dependencies[i])]
    IN IF Len(dependencies) > 0
       THEN [df EXCEPT !.injection_clients = Some(DictSet(clients, key, deps))]
       ELSE IF DictHas(clients, key)
       THEN [df EXCEPT !.injection_clients = Some(DictPop(clients, key))]
       ELSE [df EXCEPT !.injection_clients = Some(clients)]

get_clients_for_injection(df, injectionscript) ==
    IF ~IsSome(df.injection_clients) THEN <<>>
    ELSE LET clients == Get(df.injection_clients)
             str_path == as_posix(injectionscript)
             hit == [i \in 1..Len(clients) |-> str_path \in ToSet(clients[i].val)]
             idx == SelectIndices(hit, 1, Len(clients))
         IN [j \in 1..Len(idx) |-> Path(clients[idx[j]].key)]

\* A dotfile before anything was written to it.
EmptyDotfile ==
    [ processed_time |-> None,
      seen_files |-> <<>>,
      injection_clients |-> None,
      anim_hashes |-> None ]

\* The decomposition's variables while no file is being decomposed.
DecompIdle ==
    /\ ase = None
    /\ anims = None

\* The run's variables while the assistant has not run.
RunIdle ==
    /\ disk = [p \in {} |-> None]
    /\ now = 1
    /\ pc = "idle"
    /\ aseprites = <<>>
    /\ cur = 0
    /\ saveState = "none"
    /\ raised = {}
    /\ tasks = <<>>
    /\ failedFiles = {}
    /\ failedLast = {}
    /\ savedLast = {}
    /\ exportedFp = <<>>
    /\ edits = 0

DepsInit ==
    /\ DecompIdle
    /\ RunIdle
    /\ dotfile = EmptyDotfile
    /\ lastDeps = [c \in ClientScripts |-> None]
    /\ dropped = [c \in ClientScripts |-> {}]

\* One call of update_dotfile_injection_clients on the dotfile.
SetDependencies ==
    \E c \in ClientScripts, deps \in SeqsUpTo(InjectionScripts, MaxDeps) :
        /\ dotfile' = update_dotfile_injection_clients(dotfile, c, deps)
        /\ lastDeps' = [lastDeps EXCEPT ![c] = Some(ToSet(deps))]
        /\ dropped' = [dropped EXCEPT ![c] =
              IF IsSome(lastDeps[c]) THEN Get(lastDeps[c]) \ ToSet(deps) ELSE {}]
        /\ UNCHANGED <<decompVars, runVars>>

DepsNext == SetDependencies

SpecDeps == DepsInit /\ [][DepsNext]_vars

-----------------------------------------------------------------------------
(* Claims about the injection clients *)

ClientsDependingOn(d) == ToSet(get_clients_for_injection(dotfile, d))

\* C1: after any sequence of updates, the clients returned for an injection
\* script d are exactly the clients whose latest update passed a non-empty
\* list containing d (a later update replaces, an empty one removes, and
\* other clients are untouched), each returned once.
C1_ClientsAreLatestDependents ==
    \A d \in InjectionScripts :
        /\ ClientsDependingOn(d) =
              {c \in ClientScripts : IsSome(lastDeps[c]) /\ d \in Get(lastDeps[c])}
        /\ Len(get_clients_for_injection(dotfile, d)) =
              Cardinality(ClientsDependingOn(d))

\* A client's later, smaller list replaced its earlier one, a second client
\* was emptied after having had dependencies, and a third still depends on
\* the script the first one dropped.
C1_Witness ==
    \E c1, c2, c3 \in ClientScripts, d1, d2 \in InjectionScripts :
        /\ c1 # c2 /\ c2 # c3 /\ c1 # c3 /\ d1 # d2
        /\ lastDeps[c1] = Some({d1}) /\ dropped[c1] = {d2}
        /\ lastDeps[c2] = Some({}) /\ dropped[c2] # {}
        /\ lastDeps[c3] = Some({d1, d2})
        /\ ClientsDependingOn(d1) = {c1, c3}
        /\ ClientsDependingOn(d2) = {c3}

\* C2: every client stored in the injection-clients table has at least one
\* dependency.
C2_NoEmptyEntries ==
    \A i \in 1..Len(InjectClients(dotfile)) :
        Len(InjectClients(dotfile)[i].val) >= 1

\* A client was given dependencies and then an empty list, and is gone from
\* the table while another client is still stored.
C2_Witness ==
    \E c \in ClientScripts :
        /\ lastDeps[c] = Some({}) /\ dropped[c] # {}
        /\ ~DictHas(InjectClients(dotfile), as_posix(c))
        /\ Len(InjectClients(dotfile)) >= 1

-----------------------------------------------------------------------------
(* aseprite_handling/aseprites.py: decomposition of the tags *)

\* The tag colors of the assistant config: one color makes a tag an anim,
\* the other a window.
TagColors == {"red", "blue"}
AnimTagColors == {"red"}
WindowTagColors == {"blue"}

TagNames == {<<"run">>, <<"hitbox">>}

\* The tags a file of n frames can hold: any name and color, both ends on
\* frames of the file, in either order (the file format stores two numbers).
TagsOf(n) ==
    [ name : TagNames, start : 0..(n - 1), end : 0..(n - 1), color : TagColors ]

Window(name, start, end) == [name |-> name, start |-> start, end |-> end]

Anim(name, start, end, windows, file_is_fresh, anim_hashes) ==
    [ name |-> name, start |-> start, end |-> end, windows |-> windows,
      file_is_fresh |-> file_is_fresh, anim_hashes |-> anim_hashes ]

\* File.is_fresh
is_fresh(file) ==
    IF ~IsSome(file.processed_time) THEN TRUE
    ELSE Get(file.processed_time) < file.modified_time

\* A slip: the frames of a window are counted from 0.
windows_from_zero(self, start, end) ==
    LET tags == self.content.tags
        in_range == [i \in 1..Len(tags) |->
                        /\ tags[i].color \in self.window_tag_colors
                        /\ start <= tags[i].start /\ tags[i].start <= end
                        /\ start <= tags[i].end /\ tags[i].end <= end]
        idx == SelectIndices(in_range, 1, Len(tags))
    IN [j \in 1..Len(idx) |->
           Window(tags[idx[j]].name, tags[idx[j]].start - start,
                  tags[idx[j]].end - start)]

\* A slip: only the start of a window tag is tested against the range.
windows_by_start_only(self, start, end) ==
    LET tags == self.content.tags
        in_range == [i \in 1..Len(tags) |->
                        /\ tags[i].color \in self.window_tag_colors
                        /\ start <= tags[i].start /\ tags[i].start <= end]
        idx == SelectIndices(in_range, 1, Len(tags))
    IN [j \in 1..Len(idx) |->
           Window(tags[idx[j]].name, tags[idx[j]].start - start + 1,
                  tags[idx[j]].end - start + 1)]

get_windows_in_frame_range(self, start, end) ==
    LET tags == self.content.tags
        in_range == [i \in 1..Len(tags) |->
                        /\ tags[i].color \in self.window_tag_colors
                        /\ start <= tags[i].start /\ tags[i].start <= end
                        /\ start <= tags[i].end /\ tags[i].end <= end]
        tags_in_frame_range == SelectIndices(in_range, 1, Len(tags))
    IN [j \in 1..Len(tags_in_frame_range) |->
           LET tag == tags[tags_in_frame_range[j]]
           IN Window(tag.name, tag.start - start + 1, tag.end - start + 1)]

make_anim_with_windows_in_range(self, name, start, end, file_is_fresh, anim_hashes) ==
    Anim(name, start, end, get_windows_in_frame_range(self, start, end),
         file_is_fresh, anim_hashes)

\* A slip: the anim of the whole file is added to the anims of the tags.
get_anims_always_whole_file(self) ==
    LET tags == self.content.tags
        is_anim == [i \in 1..Len(tags) |-> tags[i].color \in self.anim_tag_colors]
        idx == SelectIndices(is_anim, 1, Len(tags))
        tag_anims == [j \in 1..Len(idx) |->
            make_anim_with_windows_in_range(self, tags[idx[j]].name,
                tags[idx[j]].start, tags[idx[j]].end, is_fresh(self),
                self.anim_hashes)]
    IN tag_anims \o
         << make_anim_with_windows_in_range(self, stem(self.path), 0,
                self.content.num_frames - 1, is_fresh(self), self.anim_hashes) >>

get_anims(self) ==
    LET tags == self.content.tags
        is_anim == [i \in 1..Len(tags) |-> tags[i].color \in self.anim_tag_colors]
        idx == SelectIndices(is_anim, 1, Len(tags))
        tag_anims == [j \in 1..Len(idx) |->
            make_anim_with_windows_in_range(self, tags[idx[j]].name,
                tags[idx[j]].start, tags[idx[j]].end, is_fresh(self),
                self.anim_hashes)]
    IN IF Len(tag_anims) > 0
       THEN tag_anims
       ELSE << make_anim_with_windows_in_range(self, stem(self.path), 0,
                   self.content.num_frames - 1, is_fresh(self),
                   self.anim_hashes) >>

\* Aseprite(...): a file object; its content is what the file holds.
Aseprite(path, modified_time, processed_time, anim_hashes, content) ==
    [ path |-> path, modified_time |-> modified_time,
      processed_time |-> processed_time,
      anim_tag_colors |-> AnimTagColors, window_tag_colors |-> WindowTagColors,
      anim_hashes |-> anim_hashes, content |-> content ]

\* The aseprite file that is decomposed.
DecompPath == << <<"anims">>, <<"player", ".", "ase">> >>

DecompInit ==
    /\ RunIdle
    /\ dotfile = EmptyDotfile
    /\ lastDeps = [c \in ClientScripts |-> None]
    /\ dropped = [c \in ClientScripts |-> {}]
    /\ \E n \in 1..MaxFrames : \E tags \in SeqsUpTo(TagsOf(n), MaxTags) :
          ase = Some(Aseprite(DecompPath, 1, None, stem(DecompPath),
                              [tags |-> tags, num_frames |-> n]))
    /\ anims = None

\* The anims property is read for the first time: get_anims runs.
ReadAnims ==
    /\ ~IsSome(anims)
    /\ anims' = Some(get_anims(Get(ase)))
    /\ UNCHANGED <<dotfile, depVars, ase, runVars>>

DecompNext == ReadAnims

SpecDecomp == DecompInit /\ [][DecompNext]_vars

-----------------------------------------------------------------------------
(* A run of the assistant over the aseprite files: read_aseprites, the     *)
(* save of each file, the dotfile update at the end.                       *)

\* The aseprite files the project can hold, in the order rglob lists them.
\* Two of them have the same file name in different folders.
AsepritePaths ==
    << << <<"anims">>, <<"attacks", ".", "ase">> >>,
       << <<"anims">>, <<"alt">>, <<"attacks", ".", "ase">> >>,
       << <<"anims">>, <<"idle", ".", "ase">> >> >>

AsepritePathSet == ToSet(AsepritePaths)

\* What every aseprite file of the project holds: two anims and a window.
RunContent ==
    [ tags |-> << [name |-> <<"jab">>, start |-> 0, end |-> 1, color |-> "red"],
                  [name |-> <<"dash">>, start |-> 2, end |-> 3, color |-> "red"],
                  [name |-> <<"hitbox">>, start |-> 3, end |-> 3, color |-> "blue"] >>,
      num_frames |-> 4 ]

RunAnimNames ==
    {RunContent.tags[i].name : i \in {j \in 1..Len(RunContent.tags) :
                                        RunContent.tags[j].color \in AnimTagColors}}

\* The fingerprints the pixels of an anim can have.
Fingerprints == {1, 2}

Exists(path) == IsSome(disk[path])

\* file_handling._get_modified_time
get_modified_time(path) == Get(disk[path]).modified_time

\* The fingerprint of an anim's frames in the file as it is on the disk.
get_anim_hash(path, name) == Get(disk[path]).fps[name]

\* dotfile_mod.get_script_processed_time
get_script_processed_time(df) == df.processed_time

get_processed_time(df, path) ==
    LET seen_files == df.seen_files
    IN IF as_posix(path) \in ToSet(seen_files) THEN df.processed_time ELSE None

update_dotfile_after_saving(df, time, seen_files) ==
    [df EXCEPT !.processed_time = Some(time),
               !.seen_files = [i \in 1..Len(seen_files) |-> as_posix(seen_files[i].path)]]

\* The key of a file's table in dotfile["anim_hashes"].
anim_hashes_key(path) == stem(path)

\* dotfile["anim_hashes"], once the field is there.
AnimHashes(df) == IF IsSome(df.anim_hashes) THEN Get(df.anim_hashes) ELSE <<>>

\* The table a reference handed out by read_aseprite points to.
HashTable(df, ref) ==
    IF DictHas(AnimHashes(df), ref) THEN DictGet(AnimHashes(df), ref) ELSE <<>>

\* read_aseprite: the Aseprite, and the dotfile after the two setdefault calls.
\* The Aseprite's anim_hashes is a reference to the table inside the dotfile.
read_aseprite(df, path, processed_time) ==
    LET time == IF IsSome(processed_time) THEN processed_time
                ELSE get_script_processed_time(df)
        key == anim_hashes_key(path)
        hashes == AnimHashes(df)
        with_table == IF DictHas(hashes, key) THEN hashes ELSE DictSet(hashes, key, <<>>)
    IN [ dotfile |-> [df EXCEPT !.anim_hashes = Some(with_table)],
         aseprite |-> Aseprite(path, get_modified_time(path), time, key, RunContent) ]

RECURSIVE ReadFrom(_, _, _, _)
ReadFrom(df, processed_time, i, read) ==
    IF i > Len(AsepritePaths) THEN [dotfile |-> df, aseprites |-> read]
    ELSE IF ~Exists(AsepritePaths[i]) THEN ReadFrom(df, processed_time, i + 1, read)
    ELSE LET r == read_aseprite(df, AsepritePaths[i], processed_time)
         IN ReadFrom(r.dotfile, processed_time, i + 1, Append(read, r.aseprite))

read_aseprites(df) == ReadFrom(df, get_script_processed_time(df), 1, <<>>)

\* Anim.is_fresh: the anim's fingerprint is not the one in its file's table.
AnimIsFresh(df, path, anim) ==
    LET table == HashTable(df, anim.anim_hashes)
    IN IF ~DictHas(table, anim.name) THEN TRUE
       ELSE DictGet(table, anim.name) # get_anim_hash(path, anim.name)

\* The end of a successful Anim.save: the fingerprint goes into the table.
RecordHash(df, ref, name, fp) ==
    [df EXCEPT !.anim_hashes =
        Some(DictSet(AnimHashes(df), ref, DictSet(HashTable(df, ref), name, fp)))]

RunInit ==
    /\ DecompIdle
    /\ dotfile = EmptyDotfile
    /\ lastDeps = [c \in ClientScripts |-> None]
    /\ dropped = [c \in ClientScripts |-> {}]
    /\ disk = [p \in AsepritePathSet |->
                 IF p = AsepritePaths[Len(AsepritePaths)] THEN None
                 ELSE Some([modified_time |-> 0, fps |-> [n \in RunAnimNames |-> 1]])]
    /\ now = 1
    /\ pc = "idle"
    /\ aseprites = <<>>
    /\ cur = 0
    /\ saveState = "none"
    /\ raised = {}
    /\ tasks = [p \in AsepritePathSet |-> [n \in RunAnimNames |-> "none"]]
    /\ failedFiles = {}
    /\ failedLast = {}
    /\ savedLast = {}
    /\ exportedFp = [p \in AsepritePathSet |-> [n \in RunAnimNames |-> None]]
    /\ edits = 0

\* Between runs the user redraws one anim of a file.
EditAnim ==
    /\ pc = "idle" /\ now <= MaxRuns /\ edits < MaxEdits
    /\ edits' = edits + 1
    /\ \E p \in AsepritePathSet, n \in RunAnimNames :
          /\ Exists(p)
          /\ \E fp \in Fingerprints \ {get_anim_hash(p, n)} :
                disk' = [disk EXCEPT ![p] =
                    Some([modified_time |-> now,
                          fps |-> [Get(disk[p]).fps EXCEPT ![n] = fp]])]
    /\ UNCHANGED <<dotfile, depVars, decompVars, now, pc, aseprites, cur,
                   saveState, raised, tasks, failedFiles, failedLast,
                   savedLast, exportedFp>>

\* Between runs a file is copied into the project; a copy can keep the
\* modified time of its original.
AddFile ==
    /\ pc = "idle" /\ now <= MaxRuns /\ edits < MaxEdits
    /\ edits' = edits + 1
    /\ \E p \in AsepritePathSet, m \in 0..now :
          /\ ~Exists(p)
          /\ disk' = [disk EXCEPT ![p] =
                Some([modified_time |-> m, fps |-> [n \in RunAnimNames |-> 1]])]
    /\ UNCHANGED <<dotfile, depVars, decompVars, now, pc, aseprites, cur,
                   saveState, raised, tasks, failedFiles, failedLast,
                   savedLast, exportedFp>>

\* The run starts: read_aseprites.
StartRun ==
    /\ pc = "idle" /\ now <= MaxRuns
    /\ LET r == read_aseprites(dotfile)
       IN /\ dotfile' = r.dotfile
          /\ aseprites' = r.aseprites
    /\ pc' = "running"
    /\ cur' = 1
    /\ saveState' = "none"
    /\ raised' = {}
    /\ tasks' = [p \in AsepritePathSet |-> [n \in RunAnimNames |-> "none"]]
    /\ failedFiles' = {}
    /\ UNCHANGED <<depVars, decompVars, disk, now, failedLast, savedLast, exportedFp, edits>>

\* A file that is not fresh is not saved.
SkipFile ==
    /\ pc = "running" /\ saveState = "none" /\ cur <= Len(aseprites)
    /\ ~is_fresh(aseprites[cur])
    /\ cur' = cur + 1
    /\ UNCHANGED <<dotfile, depVars, decompVars, disk, now, pc, aseprites,
                   saveState, raised, tasks, failedFiles, failedLast,
                   savedLast, exportedFp, edits>>

\* Aseprite.save up to its await: one task per fresh anim, gathered.
BeginSave ==
    /\ pc = "running" /\ saveState = "none" /\ cur <= Len(aseprites)
    /\ is_fresh(aseprites[cur])
    /\ LET self == aseprites[cur]
           all == get_anims(self)
           coroutines == {all[i].name : i \in {j \in 1..Len(all) :
                              AnimIsFresh(dotfile, self.path, all[j])}}
       IN /\ tasks' = [tasks EXCEPT ![self.path] =
                 [n \in RunAnimNames |-> IF n \in coroutines THEN "pending" ELSE "none"]]
          /\ saveState' = IF coroutines = {} THEN "returned" ELSE "awaiting"
    /\ raised' = {}
    /\ UNCHANGED <<dotfile, depVars, decompVars, disk, now, pc, aseprites, cur,
                   failedFiles, failedLast, savedLast, exportedFp, edits>>

\* The file Aseprite.save is awaiting the gather of, if any.
Awaited == IF saveState = "awaiting" THEN {aseprites[cur].path} ELSE {}

\* An export task ends well: Anim.save records the fingerprint. When it is the
\* last of the gathered tasks, the gather and so Aseprite.save return.
ExportDone ==
    /\ pc = "running"
    /\ \E p \in AsepritePathSet, n \in RunAnimNames :
          /\ tasks[p][n] = "pending"
          /\ tasks' = [tasks EXCEPT ![p][n] = "ok"]
          /\ dotfile' = RecordHash(dotfile, anim_hashes_key(p), n, get_anim_hash(p, n))
          /\ exportedFp' = [exportedFp EXCEPT ![p][n] = Some(get_anim_hash(p, n))]
          /\ saveState' =
                IF p \in Awaited /\ \A m \in RunAnimNames : tasks'[p][m] \in {"none", "ok"}
                THEN "returned" ELSE saveState
    /\ UNCHANGED <<depVars, decompVars, disk, now, pc, aseprites, cur, raised,
                   failedFiles, failedLast, savedLast, edits>>

\* An export task raises. asyncio.gather without return_exceptions hands the
\* first exception to its awaiter at once and leaves the other tasks running.
ExportFails ==
    /\ pc = "running"
    /\ \E p \in AsepritePathSet, n \in RunAnimNames :
          /\ tasks[p][n] = "pending"
          /\ tasks' = [tasks EXCEPT ![p][n] = "failed"]
          /\ IF p \in Awaited
             THEN saveState' = "raised" /\ raised' = {n}
             ELSE UNCHANGED <<saveState, raised>>
    /\ UNCHANGED <<dotfile, depVars, decompVars, disk, now, pc, aseprites, cur,
                   failedFiles, failedLast, savedLast, exportedFp, edits>>

\* Aseprite.save is over; the run notes a failure and goes on to the next file.
AfterSave ==
    /\ pc = "running" /\ saveState \in {"returned", "raised"}
    /\ failedFiles' = IF saveState = "raised"
                      THEN failedFiles \cup {aseprites[cur].path} ELSE failedFiles
    /\ cur' = cur + 1
    /\ saveState' = "none"
    /\ raised' = {}
    /\ UNCHANGED <<dotfile, depVars, decompVars, disk, now, pc, aseprites, tasks,
                   failedLast, savedLast, exportedFp, edits>>

\* The run ends: tasks still running are cancelled with the event loop, and
\* the dotfile is updated with the files that did not fail, and saved.
EndRun ==
    /\ pc = "running" /\ saveState = "none" /\ cur > Len(aseprites)
    /\ LET good == [i \in 1..Len(aseprites) |-> aseprites[i].path \notin failedFiles]
           idx == SelectIndices(good, 1, Len(aseprites))
           seen_files == [j \in 1..Len(idx) |-> aseprites[idx[j]]]
       IN /\ dotfile' = update_dotfile_after_saving(dotfile, now, seen_files)
          /\ savedLast' = {seen_files[j].path : j \in 1..Len(seen_files)}
    /\ failedLast' = failedFiles
    /\ failedFiles' = {}
    /\ tasks' = [p \in AsepritePathSet |-> [n \in RunAnimNames |-> "none"]]
    /\ aseprites' = <<>>
    /\ cur' = 0
    /\ pc' = "idle"
    /\ now' = now + 1
    /\ UNCHANGED <<depVars, decompVars, disk, saveState, raised, exportedFp, edits>>

RunNext ==
    \/ EditAnim \/ AddFile \/ StartRun \/ SkipFile \/ BeginSave
    \/ ExportDone \/ ExportFails \/ AfterSave \/ EndRun

SpecRun == RunInit /\ [][RunNext]_vars

-----------------------------------------------------------------------------
(* Claims about the decomposition *)

\* The j-th smallest member of a set of tag indices.
Nth(S, j) == CHOOSE i \in S : Cardinality({k \in S : k < i}) = j - 1

DecompTags == Get(ase).content.tags

AnimTagIndices == {i \in 1..Len(DecompTags) : DecompTags[i].color \in AnimTagColors}

\* The window-colored tags with both ends inside the anim's range.
WindowTagIndices(anim) ==
    {i \in 1..Len(DecompTags) :
        /\ DecompTags[i].color \in WindowTagColors
        /\ anim.start <= DecompTags[i].start /\ DecompTags[i].start <= anim.end
        /\ anim.start <= DecompTags[i].end /\ DecompTags[i].end <= anim.end}

\* C8, as claimed: every window of every anim is the remapped tag and has
\* 1 <= start <= end <= length of the anim.
C8_WindowsOrderedAndInRange ==
    IsSome(anims) =>
        \A a \in 1..Len(Get(anims)) :
            LET anim == Get(anims)[a]
            IN \A j \in 1..Len(anim.windows) :
                  LET w == anim.windows[j]
                      tag == DecompTags[Nth(WindowTagIndices(anim), j)]
                  IN /\ w.start = tag.start - anim.start + 1
                     /\ w.end = tag.end - anim.start + 1
                     /\ 1 <= w.start /\ w.start <= w.end
                     /\ w.end <= anim.end - anim.start + 1

\* C8, amended: every window of every anim is the remapped tag, both its
\* ends lie in 1..length of the anim, and start <= end exactly when the
\* tag has start <= end.
C8_WindowsRemappedInRange ==
    IsSome(anims) =>
        \A a \in 1..Len(Get(anims)) :
            LET anim == Get(anims)[a]
            IN \A j \in 1..Len(anim.windows) :
                  LET w == anim.windows[j]
                      tag == DecompTags[Nth(WindowTagIndices(anim), j)]
                      length == anim.end - anim.start + 1
                  IN /\ w.start = tag.start - anim.start + 1
                     /\ w.end = tag.end - anim.start + 1
                     /\ 1 <= w.start /\ w.start <= length
                     /\ 1 <= w.end /\ w.end <= length
                     /\ (w.start <= w.end) <=> (tag.start <= tag.end)

\* An anim that starts after frame 0 owns a window that starts after the
\* anim does: the window's frames are shifted.
C8_Witness ==
    /\ IsSome(anims)
    /\ \E a \in 1..Len(Get(anims)) :
          LET anim == Get(anims)[a]
          IN /\ anim.start >= 1
             /\ \E j \in 1..Len(anim.windows) :
                   /\ anim.windows[j].start = 2
                   /\ anim.windows[j].end = 2
                   /\ DecompTags[Nth(WindowTagIndices(anim), j)].start = anim.start + 1

\* C9: with anim-colored tags, the anims are those tags, one each, in tag
\* order, with the tag's name, start and end; with none, the one anim is
\* named after the file and spans frames 0..num_frames-1; a second call
\* returns the same.
C9_AnimsAreAnimTagsOrWholeFile ==
    IsSome(anims) =>
        LET res == Get(anims)
        IN /\ IF AnimTagIndices # {}
              THEN /\ Len(res) = Cardinality(AnimTagIndices)
                   /\ \A j \in 1..Len(res) :
                         LET tag == DecompTags[Nth(AnimTagIndices, j)]
                         IN /\ res[j].name = tag.name
                            /\ res[j].start = tag.start
                            /\ res[j].end = tag.end
              ELSE /\ Len(res) = 1
                   /\ res[1].name = <<"player">>
                   /\ res[1].start = 0
                   /\ res[1].end = Get(ase).content.num_frames - 1
           /\ get_anims(Get(ase)) = res

\* Two anim tags of different names gave two anims in tag order.
C9_Witness ==
    /\ IsSome(anims)
    /\ Len(DecompTags) = 2
    /\ AnimTagIndices = {1, 2}
    /\ DecompTags[1].name # DecompTags[2].name
    /\ Len(Get(anims)) = 2
    /\ Get(anims)[1].name = DecompTags[1].name
    /\ Get(anims)[2].name = DecompTags[2].name

\* C10: the windows of every anim are exactly the window-colored tags with
\* both ends inside the anim, in tag order, duplicates and overlaps kept.
C10_WindowsAreContainedWindowTags ==
    IsSome(anims) =>
        \A a \in 1..Len(Get(anims)) :
            LET anim == Get(anims)[a]
                inside == WindowTagIndices(anim)
            IN /\ Len(anim.windows) = Cardinality(inside)
               /\ \A j \in 1..Len(anim.windows) :
                     LET tag == DecompTags[Nth(inside, j)]
                     IN /\ anim.windows[j].name = tag.name
                        /\ anim.windows[j].start + anim.start - 1 = tag.start
                        /\ anim.windows[j].end + anim.start - 1 = tag.end

\* A window-colored tag starts inside an anim and ends outside it, and the
\* anim has no window.
C10_Witness ==
    /\ IsSome(anims)
    /\ \E a \in 1..Len(Get(anims)), i \in 1..Len(DecompTags) :
          LET anim == Get(anims)[a]
          IN /\ DecompTags[i].color \in WindowTagColors
             /\ anim.start <= DecompTags[i].start
             /\ DecompTags[i].start <= anim.end
             /\ DecompTags[i].end > anim.end
             /\ anim.windows = <<>>

-----------------------------------------------------------------------------
(* Claims about a run *)

\* is_stale as the freshness tracker is specified: the path was not seen, or
\* it was modified after the last run.
SpecifiedStale(df, path, modified_time) ==
    IF as_posix(path) \notin ToSet(df.seen_files) THEN TRUE
    ELSE IF ~IsSome(df.processed_time) THEN TRUE
    ELSE modified_time > Get(df.processed_time)

\* C3: a file is fresh (needs processing) exactly when its path is not among
\* the seen files or it was modified after the processed time, both for a
\* file given the time get_processed_time returns for its path and for the
\* aseprites read_aseprites returns.
C3_StaleIffUnseenOrModified ==
    /\ \A p \in AsepritePathSet :
          Exists(p) =>
             (is_fresh([path |-> p, modified_time |-> get_modified_time(p),
                        processed_time |-> get_processed_time(dotfile, p)])
                <=> SpecifiedStale(dotfile, p, get_modified_time(p)))
    /\ \A i \in 1..Len(aseprites) :
          is_fresh(aseprites[i])
             <=> SpecifiedStale(dotfile, aseprites[i].path, aseprites[i].modified_time)

\* The state in which a run has read the aseprites and saved none yet.
RunStarted == pc = "running" /\ cur = 1 /\ saveState = "none"

\* C4: at the start of a run, every file whose save failed in the run before
\* is fresh again, and every file that was saved then and not modified since
\* is not.
C4_FailedUnitStaysStale ==
    RunStarted =>
        \A i \in 1..Len(aseprites) :
            /\ aseprites[i].path \in failedLast => is_fresh(aseprites[i])
            /\ (/\ aseprites[i].path \in savedLast
                /\ IsSome(dotfile.processed_time)
                /\ aseprites[i].modified_time <= Get(dotfile.processed_time))
                  => ~is_fresh(aseprites[i])

\* C5: once Aseprite.save is over and every export it dispatched has ended,
\* what it reported to its caller is every export that failed.
C5_AllFailuresReported ==
    (/\ saveState \in {"returned", "raised"}
     /\ \A n \in RunAnimNames : tasks[aseprites[cur].path][n] # "pending")
        => raised = {n \in RunAnimNames : tasks[aseprites[cur].path][n] = "failed"}

\* The fingerprint stored for an anim of a file, in the table read_aseprite
\* hands to that file.
StoredFingerprint(df, path, name) ==
    LET table == HashTable(df, anim_hashes_key(path))
    IN IF DictHas(table, name) THEN Some(DictGet(table, name)) ELSE None

\* needs_export for an anim of a file on the disk.
NeedsExport(df, path, name) ==
    AnimIsFresh(df, path, [name |-> name, anim_hashes |-> anim_hashes_key(path)])

\* The aseprites of a run hold references to different tables.
TablesDistinct ==
    \A i, j \in 1..Len(aseprites) :
        i # j => aseprites[i].anim_hashes # aseprites[j].anim_hashes

\* C6: no two files read by read_aseprite are handed the same hash table,
\* and recording the fingerprint of an anim of one file changes neither the
\* stored fingerprint nor the needs_export answer of the anim of that name
\* of any other file.
C6_HashCacheScopedPerPath ==
    /\ []TablesDistinct
    /\ [][\A p, q \in AsepritePathSet, n \in RunAnimNames :
            (p # q /\ tasks[p][n] = "pending" /\ tasks'[p][n] = "ok" /\ Exists(q))
               => /\ StoredFingerprint(dotfile', q, n) = StoredFingerprint(dotfile, q, n)
                  /\ NeedsExport(dotfile', q, n) = NeedsExport(dotfile, q, n)]_vars

\* C7: an anim of a file needs export exactly when no fingerprint was
\* recorded for that file and anim, or the one recorded last differs from the
\* anim's fingerprint now.
C7_NeedsExportIffFingerprintNew ==
    \A p \in AsepritePathSet, n \in RunAnimNames :
        Exists(p) =>
           (NeedsExport(dotfile, p, n)
              <=> IF ~IsSome(exportedFp[p][n]) THEN TRUE
                  ELSE Get(exportedFp[p][n]) # get_anim_hash(p, n))

====
